---- MODULE Spec2Model ----
(***************************************************************************)
(* Model of app/data.py: the loader (load_data), the partitioner           *)
(* (split_timeframes), the module-level TIMEFRAMES and the five request    *)
(* handlers of the Flask application.                                      *)
(***************************************************************************)
EXTENDS Integers, Sequences, FiniteSets, TLC

\* file:       what DATA_PATH holds, its header and lines
\* fileExists: whether DATA_PATH exists now
\* pc:         "import", "serving" or "failed"
\* TIMEFRAMES: the module-level dict of the four tables
\* loads:      how many times TIMEFRAMES has been computed
\* response:   the response to the last request
VARIABLES file, fileExists, pc, TIMEFRAMES, loads, response

vars == <<file, fileExists, pc, TIMEFRAMES, loads, response>>

\* Largest number of data lines of the source file.
MaxRows == 2

--------------------------------------------------------------------------
(* Cells of the delimited text file.  A cell is a token: a date-like text, *)
(* a number, or any other text.                                            *)

DateCell(y, m, d, h) == [tok |-> "date", y |-> y, m |-> m, d |-> d, h |-> h]

NumberCell == [tok |-> "number", y |-> 0, m |-> 0, d |-> 0, h |-> 0]

TextCell == [tok |-> "text", y |-> 0, m |-> 0, d |-> 0, h |-> 0]

\* The values the Date column of the file is drawn from: both ends of each
\* interval, their neighbours, a time of day between two intervals, a
\* calendar date that does not exist and a text that is no date.
RawDates ==
    { DateCell(1962, 1, 1, 0),   DateCell(1962, 1, 2, 0),
      DateCell(1989, 12, 31, 0), DateCell(1989, 12, 31, 12),
      DateCell(1990, 1, 1, 0),   DateCell(2004, 12, 31, 0),
      DateCell(2005, 1, 1, 0),   DateCell(2017, 11, 10, 0),
      DateCell(2017, 11, 10, 12), DateCell(1990, 2, 30, 0),
      TextCell }

\* The columns a source file may have, in file order.
OtherColumns == {"Close", "Volume", "OpenInt"}

ColumnOrder == <<"Date", "Close", "Volume", "OpenInt">>

RECURSIVE SelectSeq2(_, _)
\* The subsequence of s whose elements are in the set S.
SelectSeq2(s, S) ==
    IF s = <<>> THEN <<>>
    ELSE IF Head(s) \in S THEN <<Head(s)>> \o SelectSeq2(Tail(s), S)
         ELSE SelectSeq2(Tail(s), S)

Range(s) == { s[i] : i \in DOMAIN s }

--------------------------------------------------------------------------
(* Timestamps.                                                             *)

NaT == [isnat |-> TRUE, value |-> 0]

IsLeap(y) == (y % 4 = 0 /\ y % 100 # 0) \/ y % 400 = 0

DaysIn(y, m) ==
    IF m = 2 THEN (IF IsLeap(y) THEN 29 ELSE 28)
    ELSE IF m \in {4, 6, 9, 11} THEN 30 ELSE 31

\* pd.Timestamp(...) of a calendar date and hour: totally ordered by value.
Timestamp(y, m, d, h) ==
    [isnat |-> FALSE, value |-> y * 1000000 + m * 10000 + d * 100 + h]

\* to_datetime without the validation of the calendar date: every cell
\* becomes a timestamp and none becomes NaT.
to_datetime_unchecked(cell) == Timestamp(cell.y, cell.m, cell.d, cell.h)

\* pd.to_datetime(..., errors="coerce") on one cell: a text that is no
\* valid date becomes NaT instead of raising.
to_datetime(cell) ==
    IF /\ cell.tok = "date"
       /\ cell.m \in 1..12
       /\ cell.d \in 1..DaysIn(cell.y, cell.m)
       /\ cell.h \in 0..23
    THEN Timestamp(cell.y, cell.m, cell.d, cell.h)
    ELSE NaT

\* Comparisons of a Date value with a Timestamp: any comparison with NaT
\* is False.
Ge(a, b) == ~a.isnat /\ ~b.isnat /\ a.value >= b.value

\* <= written as <.
Le_strict(a, b) == ~a.isnat /\ ~b.isnat /\ a.value < b.value

Le(a, b) == ~a.isnat /\ ~b.isnat /\ a.value <= b.value

--------------------------------------------------------------------------
(* Tables (DataFrames): an identity, the columns in order, the dtype of    *)
(* each column and the rows with their index labels.                       *)

HasColumn(df, c) == c \in Range(df.columns)

\* Type inference of read_csv for one column: numeric when every cell is a
\* number and there is at least one row, object otherwise.
InferDtype(lines, c) ==
    IF Len(lines) > 0 /\ \A i \in 1..Len(lines) : lines[i][c].tok = "number"
    THEN "float64" ELSE "object"

read_csv(f) ==
    [id      |-> 1,
     columns |-> f.columns,
     dtypes  |-> [c \in Range(f.columns) |-> InferDtype(f.lines, c)],
     rows    |-> [i \in 1..Len(f.lines) |-> [idx |-> i - 1, cells |-> f.lines[i]]]]

\* df["Date"] = pd.to_datetime(df["Date"], errors="coerce"): in place.
ParseDateColumn(df) ==
    [df EXCEPT
       !.dtypes = [c \in DOMAIN df.dtypes |->
                      IF c = "Date" THEN "datetime64" ELSE df.dtypes[c]],
       !.rows = [i \in 1..Len(df.rows) |->
                    [df.rows[i] EXCEPT !.cells =
                        [c \in DOMAIN df.rows[i].cells |->
                            IF c = "Date" THEN to_datetime(df.rows[i].cells[c])
                            ELSE df.rows[i].cells[c]]]]]

\* drop whose result is thrown away: the column stays.
DropColumn_kept(df, col) == [df EXCEPT !.id = df.id + 1]

\* df.drop(columns=[col]): a new table without the column.
DropColumn(df, col) ==
    [id      |-> df.id + 1,
     columns |-> SelectSeq2(df.columns, Range(df.columns) \ {col}),
     dtypes  |-> [c \in Range(df.columns) \ {col} |-> df.dtypes[c]],
     rows    |-> [i \in 1..Len(df.rows) |->
                    [df.rows[i] EXCEPT !.cells =
                        [c \in Range(df.columns) \ {col} |-> df.rows[i].cells[c]]]]]

\* The table load_data returns when the file exists.
load_data(f) ==
    LET df1 == read_csv(f)
        df2 == IF HasColumn(df1, "Date") THEN ParseDateColumn(df1) ELSE df1
    IN  IF HasColumn(df2, "OpenInt") THEN DropColumn(df2, "OpenInt") ELSE df2

\* A missing .copy(): the table itself.
Copy_alias(df, newid) == df

\* df.copy(): the same content in a new object.
Copy(df, newid) == [df EXCEPT !.id = newid]

RECURSIVE FilterRows(_, _, _)
\* The rows whose Date lies in [lo, hi], in order, index labels kept.
FilterRows(rows, lo, hi) ==
    IF rows = <<>> THEN <<>>
    ELSE IF Ge(Head(rows).cells["Date"], lo) /\ Le(Head(rows).cells["Date"], hi)
         THEN <<Head(rows)>> \o FilterRows(Tail(rows), lo, hi)
         ELSE FilterRows(Tail(rows), lo, hi)

\* df[(df["Date"] >= lo) & (df["Date"] <= hi)].copy()
Slice(df, lo, hi, newid) ==
    [df EXCEPT !.id = newid, !.rows = FilterRows(df.rows, lo, hi)]

early_start == Timestamp(1962, 1, 2, 0)

\* The end of the early interval one day late.
early_end_late == Timestamp(1990, 1, 1, 0)

early_end == Timestamp(1989, 12, 31, 0)

\* The start of the mid interval one day early.
mid_start_overlap == Timestamp(1989, 12, 31, 0)

mid_start == Timestamp(1990, 1, 1, 0)

mid_end == Timestamp(2004, 12, 31, 0)

\* The start of the recent interval one day early.
recent_start_overlap == Timestamp(2004, 12, 31, 0)

recent_start == Timestamp(2005, 1, 1, 0)

recent_end == Timestamp(2017, 11, 10, 0)

split_timeframes(df) ==
    IF ~HasColumn(df, "Date")
    THEN [master |-> df,
          early  |-> Copy(df, df.id + 1),
          mid    |-> Copy(df, df.id + 2),
          recent |-> Copy(df, df.id + 3)]
    ELSE [master |-> df,
          early  |-> Slice(df, early_start, early_end, df.id + 1),
          mid    |-> Slice(df, mid_start, mid_end, df.id + 2),
          recent |-> Slice(df, recent_start, recent_end, df.id + 3)]

--------------------------------------------------------------------------
(* State.                                                                  *)

NoTables == [master |-> <<>>, early |-> <<>>, mid |-> <<>>, recent |-> <<>>]

NoResponse == [path |-> "none", status |-> 0, body |-> <<>>]

\* The source files: a header that is a selection of the known columns, and
\* up to MaxRows lines.  Every cell of a column other than Date holds the
\* same kind of token.
Files ==
    { [columns |-> SelectSeq2(ColumnOrder, cs),
       lines   |-> [i \in 1..n |->
                      [c \in cs |-> IF c = "Date" THEN ds[i] ELSE ks[c]]]] :
        cs \in SUBSET Range(ColumnOrder),
        n  \in 0..MaxRows,
        ds \in [1..MaxRows -> RawDates],
        ks \in [OtherColumns -> {NumberCell, TextCell}] }

NoFile == [columns |-> <<>>, lines |-> <<>>]

Init ==
    /\ \/ fileExists = TRUE /\ file \in Files
       \/ fileExists = FALSE /\ file = NoFile
    /\ pc = "import"
    /\ TIMEFRAMES = NoTables
    /\ loads = 0
    /\ response = NoResponse

\* Whether load_data raises: FileNotFoundError when DATA_PATH does not
\* exist, and the error of read_csv on a file without a header.
LoadRaises(exists, f) == ~exists \/ f.columns = <<>>

\* Module import: TIMEFRAMES = split_timeframes(load_data()).  When
\* load_data raises, the import fails and the server never starts.
Startup ==
    /\ pc = "import"
    /\ IF LoadRaises(fileExists, file)
       THEN /\ pc' = "failed"
            /\ UNCHANGED <<TIMEFRAMES, loads>>
       ELSE /\ TIMEFRAMES' = split_timeframes(load_data(file))
            /\ loads' = loads + 1
            /\ pc' = "serving"
    /\ UNCHANGED <<file, fileExists, response>>

\* The environment removes the data file while the server runs.
DeleteFile ==
    /\ pc = "serving"
    /\ fileExists
    /\ fileExists' = FALSE
    /\ UNCHANGED <<file, pc, TIMEFRAMES, loads, response>>

--------------------------------------------------------------------------
(* Request handlers.                                                       *)

HeadLimit == 100

Min(a, b) == IF a <= b THEN a ELSE b

\* df.head(n)
head(df, n) == [df EXCEPT !.rows = SubSeq(df.rows, 1, Min(n, Len(df.rows)))]

\* df.to_html(index=False): the header and the rows, without index labels.
to_html(df) ==
    [header |-> df.columns,
     rows   |-> [i \in 1..Len(df.rows) |-> df.rows[i].cells]]

\* GET /
index ==
    /\ pc = "serving"
    /\ response' = [path |-> "/", status |-> 200,
                    body |-> to_html(head(TIMEFRAMES.master, HeadLimit))]
    /\ UNCHANGED <<file, fileExists, pc, TIMEFRAMES, loads>>

\* GET /all
all_table ==
    /\ pc = "serving"
    /\ response' = [path |-> "/all", status |-> 200,
                    body |-> to_html(TIMEFRAMES.master)]
    /\ UNCHANGED <<file, fileExists, pc, TIMEFRAMES, loads>>

\* GET /timeframes
timeframes_summary ==
    /\ pc = "serving"
    /\ response' = [path |-> "/timeframes", status |-> 200,
                    body |-> [master |-> Len(TIMEFRAMES.master.rows),
                              early  |-> Len(TIMEFRAMES.early.rows),
                              mid    |-> Len(TIMEFRAMES.mid.rows),
                              recent |-> Len(TIMEFRAMES.recent.rows)]]
    /\ UNCHANGED <<file, fileExists, pc, TIMEFRAMES, loads>>

\* df.select_dtypes(include=["number"]): the numeric columns.
NumericColumns(df) == { c \in Range(df.columns) : df.dtypes[c] = "float64" }

None == [image |-> FALSE, over |-> {}]

\* generate_heatmap with the column threshold off by one.
generate_heatmap_one(df) ==
    LET numeric == { c \in Range(df.columns) : df.dtypes[c] = "float64" }
        empty   == Len(df.rows) = 0 \/ numeric = {}
    IN  IF empty \/ Cardinality(numeric) < 1
        THEN [image |-> FALSE, over |-> {}]
        ELSE [image |-> TRUE, over |-> numeric]

\* generate_heatmap: None when the numeric part is empty (no row or no
\* column) or has fewer than two columns, else the image of the correlation
\* matrix over the numeric columns.
generate_heatmap(df) ==
    LET numeric == NumericColumns(df)
        empty   == Len(df.rows) = 0 \/ numeric = {}
    IN  IF empty \/ Cardinality(numeric) < 2
        THEN None
        ELSE [image |-> TRUE, over |-> numeric]

\* correlations that narrows the shared early table to its numeric columns
\* in place instead of working on a selection.
correlations_inplace ==
    /\ pc = "serving"
    /\ TIMEFRAMES' = [TIMEFRAMES EXCEPT
                        !.early.columns =
                            SelectSeq2(@, NumericColumns(TIMEFRAMES.early))]
    /\ response' = [path |-> "/correlations", status |-> 200, body |-> {}]
    /\ UNCHANGED <<file, fileExists, pc, loads>>

\* GET /correlations: the images that are not None, keyed by their alt text.
correlations ==
    /\ pc = "serving"
    /\ LET hm == [early  |-> generate_heatmap(TIMEFRAMES.early),
                  mid    |-> generate_heatmap(TIMEFRAMES.mid),
                  recent |-> generate_heatmap(TIMEFRAMES.recent)]
       IN response' = [path |-> "/correlations", status |-> 200,
                       body |-> { k \in DOMAIN hm : hm[k].image }]
    /\ UNCHANGED <<file, fileExists, pc, TIMEFRAMES, loads>>

\* send_file(DATA_PATH, as_attachment=True): raises when the path is gone.
send_file(exists) ==
    IF exists THEN [raised |-> FALSE, status |-> 200, body |-> "attachment"]
    ELSE [raised |-> TRUE, status |-> 500, body |-> "FileNotFoundError"]

\* download without the try/except: the exception of send_file reaches the
\* framework, which answers 500.
download_uncaught ==
    /\ pc = "serving"
    /\ LET r == send_file(fileExists)
       IN response' = [path |-> "/download", status |-> r.status, body |-> r.body]
    /\ UNCHANGED <<file, fileExists, pc, TIMEFRAMES, loads>>

\* GET /download: any exception of send_file becomes abort(404).
download ==
    /\ pc = "serving"
    /\ LET r == send_file(fileExists)
       IN response' = IF r.raised
                      THEN [path |-> "/download", status |-> 404, body |-> "Not Found"]
                      ELSE [path |-> "/download", status |-> r.status, body |-> r.body]
    /\ UNCHANGED <<file, fileExists, pc, TIMEFRAMES, loads>>

Next ==
    \/ Startup
    \/ DeleteFile
    \/ index
    \/ all_table
    \/ timeframes_summary
    \/ correlations
    \/ download

Spec == Init /\ [][Next]_vars

--------------------------------------------------------------------------
(* Properties.                                                             *)

Serving == pc = "serving"

\* The source file has a Date column.
FileHasDate == "Date" \in Range(file.columns)

Parts == {"early", "mid", "recent"}

RowsOf(k) == Range(TIMEFRAMES[k].rows)

DatesOf(k) == { r.cells["Date"] : r \in RowsOf(k) }

\* The Date of row r is a timestamp from lo to hi, both included, written
\* as year, month, day and hour in one number.
Within(r, lo, hi) ==
    /\ ~r.cells["Date"].isnat
    /\ lo <= r.cells["Date"].value
    /\ r.cells["Date"].value <= hi

InEarlyRange(r) == Within(r, 1962010200, 1989123100)

InMidRange(r) == Within(r, 1990010100, 2004123100)

InRecentRange(r) == Within(r, 2005010100, 2017111000)

\* C1: with a Date column, every row of early is dated 1962-01-02 to
\* 1989-12-31, every row of mid 1990-01-01 to 2004-12-31 and every row of
\* recent 2005-01-01 to 2017-11-10.
C1_RowsWithinInterval ==
    (Serving /\ FileHasDate) =>
        /\ \A r \in RowsOf("early") : InEarlyRange(r)
        /\ \A r \in RowsOf("mid") : InMidRange(r)
        /\ \A r \in RowsOf("recent") : InRecentRange(r)

C1_Witness ==
    /\ Serving /\ FileHasDate
    /\ RowsOf("early") # {}
    /\ RowsOf("recent") # {}

\* C2: with a Date column, no Date value and no row occurs in two of early,
\* mid and recent, and every row of each of them is a row of master.
C2_DisjointSubsets ==
    (Serving /\ FileHasDate) =>
        /\ \A j, k \in Parts :
              j # k => /\ DatesOf(j) \cap DatesOf(k) = {}
                       /\ RowsOf(j) \cap RowsOf(k) = {}
        /\ \A k \in Parts : RowsOf(k) \subseteq RowsOf("master")

C2_Witness ==
    /\ Serving /\ FileHasDate
    /\ RowsOf("early") # {}
    /\ RowsOf("mid") # {}

\* C3: membership is inclusive on both ends: every master row dated within
\* an interval, its first and last day included, is in that interval's
\* table; a row dated 1989-12-31 is in early and not in mid, a row dated
\* 1990-01-01 is in mid and not in early.
C3_InclusiveBoundaries ==
    (Serving /\ FileHasDate) =>
        \A r \in RowsOf("master") :
            /\ InEarlyRange(r) => r \in RowsOf("early")
            /\ InMidRange(r) => r \in RowsOf("mid")
            /\ InRecentRange(r) => r \in RowsOf("recent")
            /\ Within(r, 1989123100, 1989123100) =>
                   r \in RowsOf("early") /\ r \notin RowsOf("mid")
            /\ Within(r, 1990010100, 1990010100) =>
                   r \in RowsOf("mid") /\ r \notin RowsOf("early")

C3_Witness ==
    /\ Serving /\ FileHasDate
    /\ \E r \in RowsOf("early") : Within(r, 1989123100, 1989123100)
    /\ \E r \in RowsOf("mid") : Within(r, 1990010100, 1990010100)

PartsLen ==
    Len(TIMEFRAMES.early.rows) + Len(TIMEFRAMES.mid.rows)
        + Len(TIMEFRAMES.recent.rows)

\* C4: with a Date column, len(early) + len(mid) + len(recent) is at most
\* len(master), and equal to it exactly when the Date of every master row
\* lies in one of the three intervals.
C4_RowCount ==
    (Serving /\ FileHasDate) =>
        /\ PartsLen <= Len(TIMEFRAMES.master.rows)
        /\ PartsLen = Len(TIMEFRAMES.master.rows)
              <=> \A i \in DOMAIN TIMEFRAMES.master.rows :
                     \/ InEarlyRange(TIMEFRAMES.master.rows[i])
                     \/ InMidRange(TIMEFRAMES.master.rows[i])
                     \/ InRecentRange(TIMEFRAMES.master.rows[i])

C4_Witness ==
    /\ Serving /\ FileHasDate
    /\ 0 < PartsLen
    /\ PartsLen < Len(TIMEFRAMES.master.rows)

\* The import failed only for a missing file or a file without a header.
FailedOnlyWithoutTable == pc = "failed" => (~fileExists \/ file.columns = <<>>)

\* C5: without a Date column the split does not fail, master has every line
\* of the file in order, early, mid and recent have the rows, row order and
\* columns of master, and the four tables are four different objects.
C5_NoDateCopies ==
    /\ FailedOnlyWithoutTable
    /\ (Serving /\ ~FileHasDate) =>
          /\ Len(TIMEFRAMES.master.rows) = Len(file.lines)
          /\ \A i \in DOMAIN TIMEFRAMES.master.rows :
                TIMEFRAMES.master.rows[i].idx = i - 1
          /\ \A k \in Parts :
                /\ TIMEFRAMES[k].rows = TIMEFRAMES.master.rows
                /\ TIMEFRAMES[k].columns = TIMEFRAMES.master.columns
                /\ TIMEFRAMES[k].dtypes = TIMEFRAMES.master.dtypes
          /\ \A j, k \in Parts \cup {"master"} :
                j # k => TIMEFRAMES[j].id # TIMEFRAMES[k].id

C5_Witness ==
    /\ Serving /\ ~FileHasDate
    /\ Len(TIMEFRAMES.master.rows) = MaxRows

\* C6: after startup none of master, early, mid and recent has an OpenInt
\* column, and each has every other column of the file, in file order.
C6_OpenIntDropped ==
    Serving =>
        \A k \in Parts \cup {"master"} :
            /\ "OpenInt" \notin Range(TIMEFRAMES[k].columns)
            /\ Range(TIMEFRAMES[k].columns) = Range(file.columns) \ {"OpenInt"}
            /\ \A i, j \in DOMAIN file.columns :
                  (i < j /\ file.columns[i] # "OpenInt" /\ file.columns[j] # "OpenInt")
                  => \E a, b \in DOMAIN TIMEFRAMES[k].columns :
                        /\ a < b
                        /\ TIMEFRAMES[k].columns[a] = file.columns[i]
                        /\ TIMEFRAMES[k].columns[b] = file.columns[j]
            /\ DOMAIN TIMEFRAMES[k].dtypes = Range(file.columns) \ {"OpenInt"}
            /\ \A r \in RowsOf(k) : DOMAIN r.cells = Range(file.columns) \ {"OpenInt"}

C6_Witness ==
    /\ Serving
    /\ "OpenInt" \in Range(file.columns)
    /\ FileHasDate
    /\ RowsOf("early") # {}

\* C7: a GET /download answers 404 when the file is gone and the attachment
\* when it exists, the server keeps serving afterwards, and no /download
\* response has another status.
C7_DownloadNotFound ==
    /\ [](response.path = "/download" =>
             /\ Serving
             /\ response.status \in {200, 404}
             /\ response.status = 404 => ~fileExists)
    /\ [][download =>
             /\ response'.path = "/download"
             /\ fileExists => (response'.status = 200 /\ response'.body = "attachment")
             /\ ~fileExists => response'.status = 404
             /\ pc' = "serving"]_vars

C7_Witness ==
    /\ Serving
    /\ ~fileExists
    /\ response.path = "/download"
    /\ response.status = 404

\* C8: TIMEFRAMES is computed once, before any request is answered, and no
\* step taken while the server is serving changes it.
C8_PartitionSetFrozen ==
    /\ [](/\ pc = "import" => (loads = 0 /\ response = NoResponse)
          /\ pc = "serving" => loads = 1
          /\ response # NoResponse => (pc = "serving" /\ loads = 1))
    /\ [][pc = "serving" => (TIMEFRAMES' = TIMEFRAMES /\ loads' = loads)]_vars

C8_Witness ==
    /\ Serving
    /\ response.path = "/correlations"
    /\ response.body # {}
    /\ FileHasDate
    /\ ~fileExists

\* The numeric columns of sub-partition k, by dtype.
NumericOf(k) ==
    { c \in Range(TIMEFRAMES[k].columns) : TIMEFRAMES[k].dtypes[c] = "float64" }

\* C9 as stated: the /correlations response holds the image of a
\* sub-partition exactly when the sub-partition has at least two numeric
\* columns.
C9_ImageIffTwoNumericColumns ==
    response.path = "/correlations" =>
        \A k \in Parts : k \in response.body <=> Cardinality(NumericOf(k)) >= 2

\* C9 amended: the /correlations response is a 200 that holds the image of
\* a sub-partition exactly when the sub-partition has at least one row and
\* at least two numeric columns.
C9_ImageIffRowsAndTwoNumericColumns ==
    response.path = "/correlations" =>
        /\ response.status = 200
        /\ response.body \subseteq Parts
        /\ \A k \in Parts :
              k \in response.body
                  <=> (Len(TIMEFRAMES[k].rows) >= 1 /\ Cardinality(NumericOf(k)) >= 2)

C9_Witness ==
    /\ response.path = "/correlations"
    /\ \E k \in Parts : k \in response.body
    /\ \E k \in Parts :
          /\ k \notin response.body
          /\ Len(TIMEFRAMES[k].rows) = 0
          /\ Cardinality(NumericOf(k)) >= 2

\* The Date cells of the file that are no date, and those that are a date
\* outside all three intervals.
Unparseable == {TextCell, DateCell(1990, 2, 30, 0)}

OutOfRange ==
    {DateCell(1962, 1, 1, 0), DateCell(1989, 12, 31, 12), DateCell(2017, 11, 10, 12)}

\* C10: a line whose Date cannot be parsed does not make the load fail; its
\* row is in master at the position of the line with a missing Date and in
\* none of early, mid and recent; a line dated outside all three intervals
\* is in master at its position, with its Date, and in none of them.
C10_BadDatesStayInMasterOnly ==
    /\ FailedOnlyWithoutTable
    /\ (Serving /\ FileHasDate) =>
          /\ Len(TIMEFRAMES.master.rows) = Len(file.lines)
          /\ \A i \in DOMAIN file.lines :
                LET r == TIMEFRAMES.master.rows[i]
                IN  /\ r.idx = i - 1
                    /\ file.lines[i]["Date"] \in Unparseable =>
                          /\ r.cells["Date"].isnat
                          /\ \A k \in Parts : r \notin RowsOf(k)
                    /\ file.lines[i]["Date"] \in OutOfRange =>
                          /\ ~r.cells["Date"].isnat
                          /\ \A k \in Parts : r \notin RowsOf(k)

C10_Witness ==
    /\ Serving /\ FileHasDate
    /\ Len(file.lines) = MaxRows
    /\ file.lines[1]["Date"] \in Unparseable
    /\ file.lines[MaxRows]["Date"] \in OutOfRange

====
